---- MODULE Spec2Model ----
(***************************************************************************)
(* Model of libgit-rs: Blob (src/blob.rs), Mode (src/mode.rs), OID         *)
(* (src/oid.rs) and Tree (src/tree.rs).                                    *)
(*                                                                         *)
(* A byte is a number in 0..255; a Vec<u8>, a &[u8] and the UTF-8 bytes of *)
(* a String are sequences of bytes.  The library keeps no state between    *)
(* calls: the state of the model is the object a caller holds (a Blob, an  *)
(* OID, a hex string, a Tree), the filesystem the Tree functions read, the *)
(* standard output, and the last call with what it returned.               *)
(***************************************************************************)
EXTENDS Integers, Sequences, FiniteSets, TLC

VARIABLES blob, oid, hex, hexSrc, fs, tree, stdout, call, arg, ret

vars == <<blob, oid, hex, hexSrc, fs, tree, stdout, call, arg, ret>>

(***************************************************************************)
(* Bounds of the inputs.                                                   *)
(***************************************************************************)
MaxBlobLen == 10
MaxHexLen == 41
OIDVar == 2
MaxEntries == 2
MaxStdout == 3

\* Values standing for "no object of this kind is held".
NoBlob == <<-1>>
NoOID == <<-1>>
NoFs == [p \in {} |-> 0]
NoRet == [kind |-> "none"]

(***************************************************************************)
(* Bytes and strings.                                                      *)
(***************************************************************************)
\* n copies of the byte b
Rep(b, n) == [i \in 1..n |-> b]

RECURSIVE Concat(_)
\* slice::concat over a sequence of byte sequences
Concat(ss) == IF ss = <<>> THEN <<>> ELSE Head(ss) \o Concat(Tail(ss))

RECURSIVE to_string(_)
\* usize::to_string: ASCII decimal digits, most significant first
to_string(n) ==
  IF n < 10 THEN <<48 + n>> ELSE to_string(n \div 10) \o <<48 + (n % 10)>>

(***************************************************************************)
(* The digest.  SHA-1 is the work of the sha1 crate; the model keeps what  *)
(* the library uses of it: a deterministic function from a byte sequence   *)
(* to 20 bytes.  No property below depends on the digest's values.         *)
(***************************************************************************)
OIDLen == 20

RECURSIVE WeightedSum(_, _, _)
WeightedSum(bytes, i, k) ==
  IF i > Len(bytes) THEN 0
  ELSE ((i + k) * (bytes[i] + 1) + WeightedSum(bytes, i + 1, k)) % 256

Sha1(bytes) ==
  [k \in 1..OIDLen |-> (WeightedSum(bytes, 1, k) + 31 * Len(bytes) + k) % 256]

(***************************************************************************)
(* Blob (src/blob.rs).  A Blob is its content, a byte sequence.            *)
(***************************************************************************)
Blob_new(bytes) == bytes

Blob_as_bytes_NoNul(b) == Concat(<< <<98, 108, 111, 98, 32>>, to_string(Len(b)), b >>)

\* "blob " {content_len} NUL {content}
Blob_as_bytes(b) ==
  Concat(<< <<98, 108, 111, 98, 32>>, to_string(Len(b)), <<0>>, b >>)

Blob_size(b) == Len(b)

Blob_contents(b) == b

\* impl From<&Blob> for OID, reached by Blob::id
Blob_id(b) == Sha1(Blob_as_bytes(b))

(***************************************************************************)
(* Strings.  A &str is a sequence of chars (Unicode scalar values);        *)
(* str::len and str::as_bytes work on its UTF-8 encoding.                  *)
(***************************************************************************)
\* the UTF-8 encoding of one char below U+0800
Utf8Char(c) == IF c < 128 THEN <<c>> ELSE <<192 + (c \div 64), 128 + (c % 64)>>

RECURSIVE str_as_bytes(_)
str_as_bytes(s) ==
  IF s = <<>> THEN <<>> ELSE Utf8Char(Head(s)) \o str_as_bytes(Tail(s))

str_len(s) == Len(str_as_bytes(s))

(***************************************************************************)
(* The hex crate, as OID uses it.                                          *)
(***************************************************************************)
\* HEX_CHARS_LOWER[n] for a nibble n
HexCharLower(n) == IF n < 10 THEN 48 + n ELSE 97 + (n - 10)

HexCharUpper(n) == IF n < 10 THEN 48 + n ELSE 65 + (n - 10)

hex_encode_upper(bytes) ==
  [i \in 1..(2 * Len(bytes)) |->
     IF i % 2 = 1 THEN HexCharUpper(bytes[(i + 1) \div 2] \div 16)
     ELSE HexCharUpper(bytes[i \div 2] % 16)]

\* hex::encode: two lowercase digits per byte, high nibble first
hex_encode(bytes) ==
  [i \in 1..(2 * Len(bytes)) |->
     IF i % 2 = 1 THEN HexCharLower(bytes[(i + 1) \div 2] \div 16)
     ELSE HexCharLower(bytes[i \div 2] % 16)]

\* hex's val(c, idx): the value of one hex digit byte, -1 when it is none
HexVal(c) ==
  IF c >= 65 /\ c <= 70 THEN c - 65 + 10
  ELSE IF c >= 97 /\ c <= 102 THEN c - 97 + 10
  ELSE IF c >= 48 /\ c <= 57 THEN c - 48
  ELSE -1

\* hex::decode on the bytes of the string: OddLength, else the first byte
\* (lowest index, counted from 0) that is no hex digit, reported with
\* `c as char`, else the decoded bytes
hex_decode(bytes) ==
  IF Len(bytes) % 2 # 0 THEN [kind |-> "Err", err |-> "OddLength"]
  ELSE LET bad == {i \in 1..Len(bytes) : HexVal(bytes[i]) = -1}
       IN IF bad # {}
          THEN LET i == CHOOSE j \in bad : \A k \in bad : j <= k
               IN [kind |-> "Err", err |-> "InvalidHexCharacter",
                   c |-> bytes[i], index |-> i - 1]
          ELSE [kind |-> "Ok",
                val |-> [k \in 1..(Len(bytes) \div 2) |->
                           16 * HexVal(bytes[2 * k - 1]) + HexVal(bytes[2 * k])]]

(***************************************************************************)
(* OID (src/oid.rs).  An OID is its 20 bytes.                              *)
(***************************************************************************)
HexLen == 40

OID_as_hex_Upper(o) == hex_encode_upper(o)

OID_as_hex(o) == hex_encode(o)

OID_from_hex_OnlyShorter(s) ==
  IF str_len(s) < HexLen
  THEN [kind |-> "Err", err |-> "TooShort", len |-> str_len(s)]
  ELSE LET d == hex_decode(str_as_bytes(s))
       IN IF d.kind = "Err" THEN d
          ELSE IF Len(d.val) # OIDLen
               THEN [kind |-> "panic", msg |-> "unwrap on Err"]
               ELSE d

OID_from_hex(s) ==
  IF str_len(s) # HexLen
  THEN [kind |-> "Err", err |-> "TooShort", len |-> str_len(s)]
  ELSE LET d == hex_decode(str_as_bytes(s))
       IN IF d.kind = "Err" THEN d
          ELSE IF Len(d.val) # OIDLen
               THEN [kind |-> "panic", msg |-> "unwrap on Err"]
               ELSE d

(***************************************************************************)
(* Mode (src/mode.rs).  A Mode is its u16 discriminant.                    *)
(***************************************************************************)
Directory == 16384                         \* 0o040000
NonExecutableFile == 33188                 \* 0o100644
NonExecutableGroupWriteableFile == 33204   \* 0o100664
ExecutableFile == 33261                    \* 0o100755
SymbolicLink == 40960                      \* 0o120000
GitLink == 57344                           \* 0o160000

Modes ==
  {Directory, NonExecutableFile, NonExecutableGroupWriteableFile,
   ExecutableFile, SymbolicLink, GitLink}

RECURSIVE Octal(_)
\* fmt::Octal for u16: octal digits, most significant first
Octal(n) == IF n < 8 THEN <<48 + n>> ELSE Octal(n \div 8) \o <<48 + (n % 8)>>

\* format!("{:06o}", self): padded with '0' on the left to 6 digits at least
Mode_octal_string(m) ==
  LET d == Octal(m) IN IF Len(d) >= 6 THEN d ELSE Rep(48, 6 - Len(d)) \o d

(***************************************************************************)
(* Paths.  A PathBuf is the sequence of its components, a component the    *)
(* bytes of its name; the component ".." is Component::ParentDir, every    *)
(* other one a Component::Normal.                                          *)
(***************************************************************************)
ParentDir == <<46, 46>>

\* Ord for [u8], the order of OsStr: lexicographic by byte
BytesLess(a, b) ==
  \/ Len(a) < Len(b) /\ \A i \in 1..Len(a) : a[i] = b[i]
  \/ \E i \in 1..Len(a) :
       /\ i <= Len(b)
       /\ \A j \in 1..(i - 1) : a[j] = b[j]
       /\ a[i] < b[i]

\* derived Ord of Component: ParentDir sorts before every Normal, two
\* Normal by their bytes
ComponentLess(c, d) ==
  IF c = ParentDir THEN d # ParentDir
  ELSE d # ParentDir /\ BytesLess(c, d)

\* Ord for Path: lexicographic by component
PathLess(p, q) ==
  \/ Len(p) < Len(q) /\ \A i \in 1..Len(p) : p[i] = q[i]
  \/ \E i \in 1..Len(p) :
       /\ i <= Len(q)
       /\ \A j \in 1..(i - 1) : p[j] = q[j]
       /\ ComponentLess(p[i], q[i])

\* Path::file_name: the last component when it is a Normal one
HasFileName(p) == p # <<>> /\ p[Len(p)] # ParentDir

file_name(p) == p[Len(p)]

RECURSIVE IsUtf8(_)
\* OsStr::to_str succeeds on valid UTF-8 (chars below U+0800)
IsUtf8(b) ==
  IF b = <<>> THEN TRUE
  ELSE IF b[1] < 128 THEN IsUtf8(Tail(b))
  ELSE /\ b[1] >= 194 /\ b[1] <= 223
       /\ Len(b) >= 2 /\ b[2] >= 128 /\ b[2] <= 191
       /\ IsUtf8(Tail(Tail(b)))

\* Path::display of a relative path: the components joined by '/'
RECURSIVE display(_)
display(p) ==
  IF p = <<>> THEN <<>>
  ELSE IF Len(p) = 1 THEN p[1]
  ELSE p[1] \o <<47>> \o display(Tail(p))

IsPrefix(p, q) == Len(p) <= Len(q) /\ SubSeq(q, 1, Len(p)) = p

\* pathdiff::diff_paths(path, base) for a path that starts with base
diff_paths(path, base) == SubSeq(path, Len(base) + 1, Len(path))

(***************************************************************************)
(* The filesystem: a node per path.  type is "missing", "file", "dir" or   *)
(* "symlink"; perm is the nine permission bits of a file or directory;     *)
(* a symlink resolves to target ("file", "dir" or "missing") with the      *)
(* permission bits tperm.                                                  *)
(***************************************************************************)
Node(t, p, tt, tp) == [type |-> t, perm |-> p, target |-> tt, tperm |-> tp]

Missing == Node("missing", 0, "none", 0)

BitSet(n, k) == (n \div (2 ^ k)) % 2 = 1

NodeAt(f, p) == IF p \in DOMAIN f THEN f[p] ELSE Missing

S_IFREG == 32768
S_IFDIR == 16384

\* fs::metadata: follows a symbolic link, fails on what does not exist.
\* What it returns never describes a symbolic link.
metadata(f, p) ==
  LET n == NodeAt(f, p)
      t == IF n.type = "symlink" THEN n.target ELSE n.type
      pm == IF n.type = "symlink" THEN n.tperm ELSE n.perm
  IN IF t = "missing" THEN [kind |-> "Err", err |-> "io"]
     ELSE [kind |-> "Ok", is_dir |-> (t = "dir"), is_file |-> (t = "file"),
           is_symlink |-> FALSE,
           mode |-> (IF t = "dir" THEN S_IFDIR ELSE S_IFREG) + pm]

\* Path::is_dir
is_dir(f, p) == LET m == metadata(f, p) IN m.kind = "Ok" /\ m.is_dir

\* is_executable::IsExecutable for Path (unix): a regular file with any of
\* the three execute bits (0o111)
is_executable(f, p) ==
  LET m == metadata(f, p)
  IN /\ m.kind = "Ok"
     /\ m.is_file
     /\ (BitSet(m.mode, 0) \/ BitSet(m.mode, 3) \/ BitSet(m.mode, 6))

(***************************************************************************)
(* Tree (src/tree.rs).  A Tree is its BTreeMap<PathBuf, TreeItem>: a       *)
(* function from the set of its keys to items.  A TreeItem is              *)
(* [kind |-> "Blob", blob |-> content] or [kind |-> "Tree", tree |-> map]. *)
(***************************************************************************)
EmptyTree == [p \in {} |-> 0]

BlobItem(b) == [kind |-> "Blob", blob |-> b, tree |-> EmptyTree]

TreeItemOf(t) == [kind |-> "Tree", blob |-> <<>>, tree |-> t]

RECURSIVE SortPaths(_)
\* the keys in the order BTreeMap::iter visits them: ascending by Ord for
\* PathBuf
SortPaths(S) ==
  IF S = {} THEN <<>>
  ELSE LET m == CHOOSE x \in S : \A y \in S \ {x} : PathLess(x, y)
       IN <<m>> \o SortPaths(S \ {m})

\* the mode as_bytes picks for the key p, whose metadata could be read
EntryMode(f, p) ==
  LET meta == metadata(f, p)
  IN IF meta.is_dir THEN Directory
     ELSE IF meta.is_symlink THEN SymbolicLink
     ELSE IF is_executable(f, p) THEN ExecutableFile
     ELSE IF BitSet(meta.mode, 5) THEN NonExecutableGroupWriteableFile
     ELSE NonExecutableFile

\* OID::as_bytes is called by Tree::as_bytes and defined nowhere: the raw
\* identifier bytes
OID_as_bytes(o) == o

Panic(m) == [kind |-> "panic", msg |-> m]

Ret(v) == [kind |-> "ret", val |-> v]

RECURSIVE Tree_as_bytes(_, _)
RECURSIVE TreeItem_id(_, _)
RECURSIVE EntryBytes(_, _, _)
RECURSIVE Content(_, _, _)

\* the closure of as_bytes for one entry: the three unwraps in turn, then
\* mode, name, NUL, identifier
EntryBytes(f, p, item) ==
  IF ~HasFileName(p) THEN Panic("unwrap on None: file_name")
  ELSE IF ~IsUtf8(file_name(p)) THEN Panic("unwrap on None: to_str")
  ELSE IF metadata(f, p).kind = "Err" THEN Panic("unwrap on Err: metadata")
  ELSE LET id == TreeItem_id(f, item)
       IN IF id.kind = "panic" THEN id
          ELSE Ret(Concat(<< Mode_octal_string(EntryMode(f, p)), file_name(p),
                             <<0>>, OID_as_bytes(id.val) >>))

\* map, flatten, collect over the entries keys[i..] of t
Content(f, t, keys) ==
  IF keys = <<>> THEN Ret(<<>>)
  ELSE LET e == EntryBytes(f, Head(keys), t[Head(keys)])
       IN IF e.kind = "panic" THEN e
          ELSE LET rest == Content(f, t, Tail(keys))
               IN IF rest.kind = "panic" THEN rest
                  ELSE Ret(e.val \o rest.val)

\* "tree " {content_len} NUL {content}
Tree_as_bytes(f, t) ==
  LET content == Content(f, t, SortPaths(DOMAIN t))
  IN IF content.kind = "panic" THEN content
     ELSE Ret(Concat(<< <<116, 114, 101, 101, 32>>,
                        to_string(Len(content.val)), <<0>>, content.val >>))

\* Tree::id is self.into(), and no From<&Tree> for OID is defined: the
\* digest of the encoding, as for a Blob
Tree_id(f, t) ==
  LET b == Tree_as_bytes(f, t)
  IN IF b.kind = "panic" THEN b ELSE Ret(Sha1(b.val))

TreeItem_id(f, item) ==
  IF item.kind = "Blob" THEN Ret(Blob_id(item.blob)) ELSE Tree_id(f, item.tree)

TreeItem_is_tree(item) == item.kind = "Tree"

TreeItem_is_blob(item) == item.kind = "Blob"

(***************************************************************************)
(* Tree::from_dir.  WalkDir yields the root, then every entry below it,    *)
(* depth first, the children of a directory in the order read_dir lists    *)
(* them, which is any order; it does not follow a symbolic link below the  *)
(* root; a directory that cannot be listed (no owner read bit, for a       *)
(* caller that is not root) is yielded and then yields an error.           *)
(***************************************************************************)
RECURSIVE Perms(_)
\* the sequences that list every element of S once
Perms(S) ==
  IF S = {} THEN {<<>>}
  ELSE UNION {{<<x>> \o r : r \in Perms(S \ {x})} : x \in S}

Children(f, p) ==
  {q \in DOMAIN f : Len(q) = Len(p) + 1 /\ IsPrefix(p, q) /\ f[q].type # "missing"}

RECURSIVE Walk(_, _, _)
RECURSIVE WalkSeq(_, _, _)

\* the lines printed for the entries from p on, and whether the walk got
\* through without an error
Walk(f, root, p) ==
  LET line == display(diff_paths(p, root)) \o <<10>>
      descends == f[p].type = "dir" \/ (p = root /\ is_dir(f, p))
  IN IF ~descends THEN {[lines |-> <<line>>, ok |-> TRUE]}
     ELSE IF ~BitSet(metadata(f, p).mode, 8)
          THEN {[lines |-> <<line>>, ok |-> FALSE]}
          ELSE UNION {{[lines |-> <<line>> \o w.lines, ok |-> w.ok] :
                         w \in WalkSeq(f, root, order)} :
                      order \in Perms(Children(f, p))}

WalkSeq(f, root, order) ==
  IF order = <<>> THEN {[lines |-> <<>>, ok |-> TRUE]}
  ELSE UNION {IF ~w.ok THEN {w}
              ELSE {[lines |-> w.lines \o r.lines, ok |-> r.ok] :
                      r \in WalkSeq(f, root, Tail(order))} :
              w \in Walk(f, root, Head(order))}

\* Tree::from_dir(path): what it can return, with what it printed
Tree_from_dir(f, path) ==
  IF ~is_dir(f, path)
  THEN {[ret |-> Panic("not yet implemented"), out |-> <<>>]}
  ELSE {[ret |-> IF w.ok THEN [kind |-> "Ok", val |-> EmptyTree]
                 ELSE [kind |-> "Err", err |-> "io"],
         out |-> w.lines] : w \in Walk(f, path, path)}

(***************************************************************************)
(* Inputs.                                                                 *)
(***************************************************************************)
ByteSamples == {0, 97}

\* lengths with two and three decimal digits
LongLens == {14, 99, 100, 101}

BlobInputs ==
  UNION {[1..n -> ByteSamples] : n \in 0..MaxBlobLen}
    \cup {Rep(b, n) : b \in ByteSamples, n \in LongLens}

OIDByteSamples == {0, 9, 10, 171, 255}

\* identifiers: OIDVar leading bytes that vary, the rest one repeated byte
OIDInputs ==
  {h \o Rep(b, OIDLen - OIDVar) : h \in [1..OIDVar -> OIDByteSamples],
                                  b \in OIDByteSamples}

\* '/', '0', ':', '@', 'F', 'G', '`', 'a', 'f', 'g', U+00E9
CharSamples == {47, 48, 58, 64, 70, 71, 96, 97, 102, 103, 233}

\* 'a', '7'
FillChars == {97, 55}

HexLens == {0, 3, 38, 39, HexLen, MaxHexLen}

PosSamples == {1, 4, 39, 40}

Overwrite(s, p, c) == [i \in 1..Len(s) |-> IF i = p THEN c ELSE s[i]]

\* strings of one repeated hex digit with up to two chars replaced
HexInputs ==
  {Overwrite(Overwrite(Rep(fl, n), p, c1), q, c2) :
     n \in HexLens, fl \in FillChars, p \in PosSamples, q \in PosSamples,
     c1 \in CharSamples, c2 \in CharSamples}

\* the names "d", "e", "a", "ab", "n" and one byte that is no UTF-8
nD == <<100>>
nE == <<101>>
nA == <<97>>
nAB == <<97, 98>>
nN == <<110>>
nBad == <<255>>

FsPaths == {<<nD>>, <<nD, nA>>, <<nD, nAB>>, <<nE>>, <<nE, nA>>}

Dir(p) == Node("dir", p, "none", 0)
File(p) == Node("file", p, "none", 0)
Link(tt, tp) == Node("symlink", 511, tt, tp)

\* 0o755, 0o355 (not listable), 0o644
TopNodes == {Dir(493), Dir(237), File(420), Missing}

\* files 0o600 0o620 0o640 0o660 0o700 0o610, directories, symbolic links
\* to a directory, to a file 0o600, to a file 0o700, to nothing
NodeSamples ==
  {Missing, Dir(493), Dir(237),
   File(384), File(400), File(416), File(432), File(448), File(392),
   Link("dir", 493), Link("file", 384), Link("file", 448), Link("missing", 0)}

FewNodes == {Missing, File(384), Dir(237)}

\* a child exists only in a directory
MkFs(d, da, dab, e, ea) ==
  (<<nD>> :> d) @@ (<<nE>> :> e)
    @@ (<<nD, nA>> :> IF d.type = "dir" THEN da ELSE Missing)
    @@ (<<nD, nAB>> :> IF d.type = "dir" THEN dab ELSE Missing)
    @@ (<<nE, nA>> :> IF e.type = "dir" THEN ea ELSE Missing)

FsInputs ==
  {MkFs(d, da, dab, e, ea) :
     d \in TopNodes, da \in NodeSamples, dab \in FewNodes,
     e \in {Dir(493), Missing}, ea \in {File(400)}}

TreeKeys ==
  {<<nD, nA>>, <<nD, nAB>>, <<nE, nA>>, <<nD, ParentDir>>, <<nD, nBad>>}

ItemSamples ==
  {BlobItem(<<104, 105>>), TreeItemOf(<<nD, nA>> :> BlobItem(<<>>))}

\* the Trees of up to MaxEntries entries
TreeInputs ==
  UNION {[K -> ItemSamples] :
           K \in {K \in SUBSET TreeKeys : Cardinality(K) <= MaxEntries}}

Roots == {<<nD>>, <<nE>>, <<nD, nA>>, <<nN>>}

(***************************************************************************)
(* The state machine.  Init is a caller holding one object it has built;   *)
(* an action is one call, recorded in call, arg and ret.  A panic ends     *)
(* the process: nothing is called after it.                                *)
(***************************************************************************)
Running == ret.kind # "panic"

\* Blob::new(bytes) for some bytes
InitBlob ==
  /\ blob \in {Blob_new(b) : b \in BlobInputs}
  /\ oid = NoOID /\ hex = <<>> /\ hexSrc = "none"
  /\ fs = NoFs /\ tree = EmptyTree /\ stdout = <<>>
  /\ call = "none" /\ arg = <<>> /\ ret = NoRet

\* an OID in hand, or a string in hand
InitOID ==
  /\ \/ oid \in OIDInputs /\ hex = <<>> /\ hexSrc = "none"
     \/ oid = NoOID /\ hex \in HexInputs /\ hexSrc = "input"
  /\ blob = NoBlob
  /\ fs = NoFs /\ tree = EmptyTree /\ stdout = <<>>
  /\ call = "none" /\ arg = <<>> /\ ret = NoRet

\* a filesystem and a Tree
InitTree ==
  /\ fs \in FsInputs
  /\ tree \in TreeInputs
  /\ blob = NoBlob /\ oid = NoOID /\ hex = <<>> /\ hexSrc = "none"
  /\ stdout = <<>>
  /\ call = "none" /\ arg = <<>> /\ ret = NoRet

Init == InitBlob \/ InitOID \/ InitTree

CallBlobAsBytes ==
  /\ Running /\ blob # NoBlob
  /\ call' = "Blob::as_bytes" /\ arg' = <<>>
  /\ ret' = Ret(Blob_as_bytes(blob))
  /\ UNCHANGED <<blob, oid, hex, hexSrc, fs, tree, stdout>>

CallBlobSize ==
  /\ Running /\ blob # NoBlob
  /\ call' = "Blob::size" /\ arg' = <<>>
  /\ ret' = Ret(Blob_size(blob))
  /\ UNCHANGED <<blob, oid, hex, hexSrc, fs, tree, stdout>>

CallBlobContents ==
  /\ Running /\ blob # NoBlob
  /\ call' = "Blob::contents" /\ arg' = <<>>
  /\ ret' = Ret(Blob_contents(blob))
  /\ UNCHANGED <<blob, oid, hex, hexSrc, fs, tree, stdout>>

CallBlobId ==
  /\ Running /\ blob # NoBlob
  /\ call' = "Blob::id" /\ arg' = <<>>
  /\ ret' = Ret(Blob_id(blob))
  /\ UNCHANGED <<blob, oid, hex, hexSrc, fs, tree, stdout>>

\* oid.as_hex(): the caller now holds the string
CallOIDAsHex ==
  /\ Running /\ oid # NoOID
  /\ call' = "OID::as_hex" /\ arg' = <<>>
  /\ hex' = OID_as_hex(oid) /\ hexSrc' = "as_hex"
  /\ ret' = Ret(hex')
  /\ UNCHANGED <<blob, oid, fs, tree, stdout>>

\* OID::from_hex(hex) on the string in hand
CallOIDFromHex ==
  /\ Running /\ hexSrc # "none"
  /\ call' = "OID::from_hex" /\ arg' = hex
  /\ ret' = OID_from_hex(hex)
  /\ UNCHANGED <<blob, oid, hex, hexSrc, fs, tree, stdout>>

CallTreeFromDir ==
  /\ Running /\ fs # NoFs
  /\ \E root \in Roots : \E o \in Tree_from_dir(fs, root) :
       /\ Len(stdout) + Len(o.out) <= MaxStdout
       /\ call' = "Tree::from_dir" /\ arg' = root
       /\ ret' = o.ret
       /\ stdout' = stdout \o o.out
       /\ tree' = IF o.ret.kind = "Ok" THEN o.ret.val ELSE tree
  /\ UNCHANGED <<blob, oid, hex, hexSrc, fs>>

CallTreeAsBytes ==
  /\ Running /\ fs # NoFs
  /\ call' = "Tree::as_bytes" /\ arg' = <<>>
  /\ ret' = Tree_as_bytes(fs, tree)
  /\ UNCHANGED <<blob, oid, hex, hexSrc, fs, tree, stdout>>

CallTreeId ==
  /\ Running /\ fs # NoFs
  /\ call' = "Tree::id" /\ arg' = <<>>
  /\ ret' = Tree_id(fs, tree)
  /\ UNCHANGED <<blob, oid, hex, hexSrc, fs, tree, stdout>>

NextBlob == CallBlobAsBytes \/ CallBlobSize \/ CallBlobContents \/ CallBlobId

NextOID == CallOIDAsHex \/ CallOIDFromHex

NextTree == CallTreeFromDir \/ CallTreeAsBytes \/ CallTreeId

Next == NextBlob \/ NextOID \/ NextTree

SpecBlob == InitBlob /\ [][NextBlob]_vars

SpecOID == InitOID /\ [][NextOID]_vars

SpecTree == InitTree /\ [][NextTree]_vars

Spec == Init /\ [][Next]_vars

(***************************************************************************)
(* Properties.                                                             *)
(***************************************************************************)
IsDigit(c) == c >= 48 /\ c <= 57

RECURSIVE DecimalValue(_)
\* the number a sequence of decimal digits writes
DecimalValue(d) ==
  IF d = <<>> THEN 0
  ELSE 10 * DecimalValue(SubSeq(d, 1, Len(d) - 1)) + (d[Len(d)] - 48)

\* a decimal numeral without leading zeros
IsDecimal(d) ==
  /\ d # <<>>
  /\ \A i \in 1..Len(d) : IsDigit(d[i])
  /\ d[1] = 48 => Len(d) = 1

\* C1: what Blob::as_bytes returns is "blob ", the decimal length of the
\* content without leading zeros, one NUL and the content unchanged, and
\* the length written is Blob::size().
C1_BlobEncoding ==
  call = "Blob::as_bytes" =>
    LET out == ret.val
        hl == Len(out) - Len(blob)
        digits == SubSeq(out, 6, hl - 1)
    IN /\ hl >= 7
       /\ SubSeq(out, 1, 5) = <<98, 108, 111, 98, 32>>
       /\ IsDecimal(digits)
       /\ DecimalValue(digits) = Len(blob)
       /\ DecimalValue(digits) = Blob_size(blob)
       /\ out[hl] = 0
       /\ SubSeq(out, hl + 1, Len(out)) = blob

\* a content of ten bytes or more with a NUL in it has been encoded
C1_Witness ==
  /\ call = "Blob::as_bytes"
  /\ Len(blob) >= 10
  /\ \E i \in 1..Len(blob) : blob[i] = 0

\* the empty content has been encoded
C1_WitnessEmpty == call = "Blob::as_bytes" /\ blob = <<>>

IsLowerHex(c) == IsDigit(c) \/ (c >= 97 /\ c <= 102)

IsHexChar(c) == IsLowerHex(c) \/ (c >= 65 /\ c <= 70)

\* C6: as_hex yields 40 lowercase hex characters, and from_hex of what
\* as_hex returned for an identifier is Ok of that identifier.
C6_HexRoundTrip ==
  /\ hexSrc = "as_hex" =>
       /\ Len(hex) = 40
       /\ \A i \in 1..Len(hex) : IsLowerHex(hex[i])
  /\ (call = "OID::from_hex" /\ hexSrc = "as_hex") =>
       ret = [kind |-> "Ok", val |-> oid]

\* an identifier with a byte that takes letters has gone through as_hex
\* and from_hex
C6_Witness ==
  /\ call = "OID::from_hex" /\ hexSrc = "as_hex"
  /\ \E i \in 1..Len(oid) : oid[i] = 171

\* the length of a string as str::len counts it: its bytes in UTF-8
\* (chars below U+0800)
ByteLength(s) == Len(s) + Cardinality({i \in 1..Len(s) : s[i] >= 128})

\* C7: from_hex fails with the length error, carrying the length of the
\* string, exactly when that length is not 40, whatever the characters.
C7_LengthError ==
  call = "OID::from_hex" =>
    IF ByteLength(arg) # 40
    THEN ret = [kind |-> "Err", err |-> "TooShort", len |-> ByteLength(arg)]
    ELSE ~(ret.kind = "Err" /\ ret.err = "TooShort")

\* a string longer than 40 with a character that is no hex digit has been
\* decoded
C7_Witness ==
  /\ call = "OID::from_hex"
  /\ ByteLength(arg) > 40
  /\ \E i \in 1..Len(arg) : ~IsHexChar(arg[i])

\* C8: on a string of length 40 from_hex succeeds exactly when every
\* character is a hex digit, and otherwise fails with the invalid-character
\* error that carries the position and the character of the first one that
\* is none.
C8_InvalidCharacter ==
  (call = "OID::from_hex" /\ ByteLength(arg) = 40) =>
    LET bad == {i \in 1..Len(arg) : ~IsHexChar(arg[i])}
    IN IF bad = {} THEN ret.kind = "Ok"
       ELSE LET i == CHOOSE j \in bad : \A k \in bad : j <= k
            IN ret = [kind |-> "Err", err |-> "InvalidHexCharacter",
                      c |-> arg[i], index |-> i - 1]

TreeHeader(content) ==
  <<116, 114, 101, 101, 32>> \o to_string(Len(content)) \o <<0>> \o content

Encoded == call = "Tree::as_bytes" /\ ret.kind = "ret"

\* the identifier bytes written for the item of the key p
IdBytes(p) == TreeItem_id(fs, tree[p]).val

RECURSIVE C2_Content(_)
\* mode, space, name, NUL, identifier for each key in turn
C2_Content(keys) ==
  IF keys = <<>> THEN <<>>
  ELSE LET p == Head(keys)
       IN Mode_octal_string(EntryMode(fs, p)) \o <<32>> \o file_name(p)
            \o <<0>> \o IdBytes(p) \o C2_Content(Tail(keys))

\* C2: what Tree::as_bytes returns is "tree ", the decimal length of the
\* content block, NUL and the content block, which holds for each entry
\* the 6-digit octal mode, a space, the name, NUL and the 20 identifier
\* bytes.
C2_TreeEncoding ==
  Encoded =>
    /\ ret.val = TreeHeader(C2_Content(SortPaths(DOMAIN tree)))
    /\ \A p \in DOMAIN tree :
         Len(IdBytes(p)) = 20 /\ Len(Mode_octal_string(EntryMode(fs, p))) = 6

\* the names of the keys in turn never go down in byte order
NamesAscend(keys) ==
  \A i \in 1..(Len(keys) - 1) :
    ~BytesLess(file_name(keys[i + 1]), file_name(keys[i]))

\* the (name, mode, identifier) triples of a Tree that encodes
Triples(t) ==
  {<<file_name(p), EntryMode(fs, p), TreeItem_id(fs, t[p]).val>> : p \in DOMAIN t}

\* C3: Tree::as_bytes emits the entries in ascending byte order of the
\* names it writes, and two Trees with the same set of (name, mode,
\* identifier) entries encode to the same bytes.
C3_NameOrder ==
  Encoded =>
    /\ \E order \in Perms(DOMAIN tree) :
         /\ NamesAscend(order)
         /\ ret.val = TreeHeader(Content(fs, tree, order).val)
    /\ \A t \in TreeInputs :
         (/\ Tree_as_bytes(fs, t).kind = "ret"
          /\ Cardinality(DOMAIN t) = Cardinality(DOMAIN tree)
          /\ Triples(t) = Triples(tree))
           => Tree_as_bytes(fs, t) = ret

\* the mode of an entry by the priority of the claim, from the entry's own
\* node: directory, symbolic link, owner execute (0o100), group write
\* (0o020), else plain
ModeByPriority(n) ==
  IF n.type = "dir" THEN <<48, 52, 48, 48, 48, 48>>
  ELSE IF n.type = "symlink" THEN <<49, 50, 48, 48, 48, 48>>
  ELSE IF BitSet(n.perm, 6) THEN <<49, 48, 48, 55, 53, 53>>
  ELSE IF BitSet(n.perm, 4) THEN <<49, 48, 48, 54, 54, 52>>
  ELSE <<49, 48, 48, 54, 52, 52>>

RECURSIVE ModesWritten(_, _)
\* the entries of the content block start with the modes of the keys
ModesWritten(content, keys) ==
  IF keys = <<>> THEN TRUE
  ELSE LET p == Head(keys)
           n == 6 + Len(file_name(p)) + 1 + Len(IdBytes(p))
       IN /\ Len(content) >= n
          /\ SubSeq(content, 1, 6) = ModeByPriority(fs[p])
          /\ ModesWritten(SubSeq(content, n + 1, Len(content)), Tail(keys))

\* C4: the mode written for every entry is the one the priority directory,
\* symbolic link, owner execute, group write, plain file gives for the
\* entry's own metadata.
C4_ModeSelection ==
  Encoded =>
    LET body == Content(fs, tree, SortPaths(DOMAIN tree)).val
    IN /\ ret.val = TreeHeader(body)
       /\ ModesWritten(body, SortPaths(DOMAIN tree))

\* C5: from_dir on a root that is no directory returns the NotADirectory
\* error, having walked nothing and built no Tree.
C5_NotADirectory ==
  (call = "Tree::from_dir" /\ ~is_dir(fs, arg)) =>
    ret = [kind |-> "Err", err |-> "NotADirectory"]

\* C9: no call ends in a panic.
C9_NoPanic == ret.kind # "panic"

\* C10: the Tree from_dir returns holds one entry for each direct child of
\* the root, a Blob for what is no directory and a Tree for a directory,
\* under the child's name, and a root with a child gives a Tree that does
\* not encode as the empty one.
C10_OneEntryPerChild ==
  (call = "Tree::from_dir" /\ ret.kind = "Ok") =>
    LET t == ret.val
        kids == Children(fs, arg)
    IN /\ Cardinality(DOMAIN t) = Cardinality(kids)
       /\ \A q \in kids : \E p \in DOMAIN t :
            /\ file_name(p) = file_name(q)
            /\ TreeItem_is_tree(t[p]) <=> fs[q].type = "dir"
       /\ kids # {} =>
            /\ DOMAIN t # {}
            /\ Tree_as_bytes(fs, t) # Ret(<<116, 114, 101, 101, 32, 48, 0>>)

====
